---- MODULE Spec2Model ----
(***************************************************************************)
(* pasta: a self-destructing paste store (src/main.rs).                    *)
(*                                                                         *)
(* Two axum handlers, create_paste and get_paste, run as concurrent tasks  *)
(* over a bb8 connection pool to a Redis store.  Each handler has two      *)
(* suspension points: pool.get().await and the store command's .await.     *)
(* Strings are modelled as what Rust holds: sequences of bytes (0..255)    *)
(* that are valid UTF-8.                                                   *)
(*                                                                         *)
(* The engine: SETEX and GETDEL are single indivisible commands; an entry  *)
(* is gone once its time to live has run out.  A command either is         *)
(* performed and answered, or is refused with an error reply and changes   *)
(* nothing; the reply of a performed GETDEL can still fail to convert to   *)
(* Option<String>.  A task's command and its return are one step.          *)
(*                                                                         *)
(* Four specifications:                                                    *)
(*   Spec        the handlers over a store whose namespace only they write *)
(*   SharedSpec  the same, the store already holding a foreign value       *)
(*   StalledSpec requests against an engine that never answers (fair)      *)
(*   RespSpec    the error-to-response mapping on its own                  *)
(***************************************************************************)
EXTENDS Integers, Sequences, FiniteSets, TLC

\* ---------------------------------------------------------------- bounds
NumTasks == 3
PoolSize == 2
MaxTicks == 2

Tasks == 1..NumTasks
Conns == 1..PoolSize

\* ------------------------------------------------------------- constants
EXPIRY_SECS == 60 * 30
KEY_LEN == 8
\* The clock of the model advances by half a TTL at a time.
TickSecs == EXPIRY_SECS \div 2
NoExpiry == 0 - 1

\* ---------------------------------------------------------------- strings
\* "pasta:"
NAMESPACE == <<112, 97, 115, 116, 97, 58>>
\* "not found: "
NOT_FOUND_PREFIX == <<110, 111, 116, 32, 102, 111, 117, 110, 100, 58, 32>>

\* Mutant of redis_key: the key is used as it is, without the namespace.
redis_key_bare(key) == key

\* format!("pasta:{key}")
redis_key(key) == NAMESPACE \o key

\* rand::distributions::Alphanumeric: A-Z, a-z, 0-9
CHARSET ==
  [i \in 1..62 |-> IF i <= 26 THEN 64 + i
                   ELSE IF i <= 52 THEN 96 + (i - 26)
                   ELSE 47 + (i - 52)]

\* The draws the thread-local generator can hand out, as indices into CHARSET.
RngStreams ==
  { <<0, 27, 54, 3, 30, 57, 6, 33, 60, 9>>,
    <<61, 25, 26, 51, 52, 0, 13, 40, 7, 7>> }

\* Mutant of GenerateKey: one draw too few (take(7)).
GenerateKey_short(rng) == [i \in 1..(KEY_LEN - 1) |-> CHARSET[rng[i] + 1]]

\* thread_rng().sample_iter(&Alphanumeric).take(8).map(char::from).collect()
GenerateKey(rng) == [i \in 1..KEY_LEN |-> CHARSET[rng[i] + 1]]

\* std::str::from_utf8, as the String conversions of the handlers apply it.
RECURSIVE ValidUtf8(_)
IsCont(b) == b >= 128 /\ b <= 191
ValidUtf8(bs) ==
  IF Len(bs) = 0 THEN TRUE
  ELSE LET b == bs[1] IN
    IF b <= 127 THEN ValidUtf8(Tail(bs))
    ELSE IF b >= 194 /\ b <= 223
      THEN /\ Len(bs) >= 2
           /\ IsCont(bs[2])
           /\ ValidUtf8(SubSeq(bs, 3, Len(bs)))
    ELSE IF b >= 224 /\ b <= 239
      THEN /\ Len(bs) >= 3
           /\ IsCont(bs[2]) /\ IsCont(bs[3])
           /\ (b = 224 => bs[2] >= 160)
           /\ (b = 237 => bs[2] <= 159)
           /\ ValidUtf8(SubSeq(bs, 4, Len(bs)))
    ELSE IF b >= 240 /\ b <= 244
      THEN /\ Len(bs) >= 4
           /\ IsCont(bs[2]) /\ IsCont(bs[3]) /\ IsCont(bs[4])
           /\ (b = 240 => bs[2] >= 144)
           /\ (b = 244 => bs[2] <= 143)
           /\ ValidUtf8(SubSeq(bs, 5, Len(bs)))
    ELSE FALSE

\* Request bodies a client may POST: "hi", "e-acute" (2-byte form), and a body
\* that is not UTF-8.  The String extractor of create_paste rejects the last
\* before the handler runs.
RequestBodies == { <<104, 105>>, <<195, 169>>, <<255>> }
Pastes == { b \in RequestBodies : ValidUtf8(b) }

\* Path parameters a client may GET: every key the generator can produce and
\* one it cannot.
UnknownKey == <<110, 111, 112, 101>>
PathKeys == { GenerateKey(r) : r \in RngStreams } \cup { UnknownKey }

\* Error texts of the store engine (RedisError's payload).
EngineErrors == { "READONLY" }
TypeError == "TypeError: Invalid UTF-8"

\* ---------------------------------------------------------------- results
Ok(v) == [kind |-> "Ok", val |-> v, detail |-> ""]
NotFound(key) == [kind |-> "NotFound", val |-> key, detail |-> ""]
RedisError(e) == [kind |-> "RedisError", val |-> <<>>, detail |-> e]
ConnectionTimeout == [kind |-> "ConnectionTimeout", val |-> <<>>, detail |-> ""]
PasteDecodeError(e) == [kind |-> "PasteDecodeError", val |-> <<>>, detail |-> e]
NoResult == [kind |-> "None", val |-> <<>>, detail |-> ""]

\* impl From<RunError<RedisError>> for PastaError
RunError_User(e) == [tag |-> "User", detail |-> e]
RunError_TimedOut == [tag |-> "TimedOut", detail |-> ""]
\* Mutant of From_RunError: every pool failure is passed on as an engine error.
From_RunError_all_user(e) == RedisError(e.detail)

\* Mutant of From_RunError: every pool failure is passed on as a timeout.
From_RunError_all_timeout(e) == ConnectionTimeout

From_RunError(e) ==
  IF e.tag = "User" THEN RedisError(e.detail) ELSE ConnectionTimeout

\* Mutant of into_response: a decode error is answered like the other failures.
into_response_decode_500(err) ==
  IF err.kind = "NotFound"
  THEN [status |-> 404, body |-> NOT_FOUND_PREFIX \o err.val]
  ELSE [status |-> 500, body |-> <<>>]

\* Mutant of into_response: the engine's error text is sent to the client.
into_response_with_detail(err) ==
  CASE err.kind = "NotFound" ->
         [status |-> 404, body |-> NOT_FOUND_PREFIX \o err.val]
    [] err.kind = "RedisError" ->
         [status |-> 500,
          body |-> IF err.detail = "OOM" THEN <<79, 79, 77>> ELSE <<69, 82, 82>>]
    [] err.kind = "ConnectionTimeout" -> [status |-> 500, body |-> <<>>]
    [] err.kind = "PasteDecodeError" -> [status |-> 400, body |-> <<>>]

\* impl IntoResponse for PastaError
NoResp == [status |-> 0, body |-> <<>>]
into_response(err) ==
  CASE err.kind = "NotFound" ->
         [status |-> 404, body |-> NOT_FOUND_PREFIX \o err.val]
    [] err.kind = "RedisError" -> [status |-> 500, body |-> <<>>]
    [] err.kind = "ConnectionTimeout" -> [status |-> 500, body |-> <<>>]
    [] err.kind = "PasteDecodeError" -> [status |-> 400, body |-> <<>>]

\* Result<String, PastaError> as a response: axum answers Ok(s) with 200 and s.
Reply(res) ==
  IF res.kind = "Ok" THEN [status |-> 200, body |-> res.val]
  ELSE into_response(res)

\* ------------------------------------------------------------ the store
\* Mutant of SETEX: a plain SET, which gives the entry no time to live.
SET_only(s, k, v, secs, t) ==
  [x \in DOMAIN s \cup {k} |->
     IF x = k THEN [val |-> v, exp |-> NoExpiry] ELSE s[x]]

\* Mutant of SETEX: an existing entry is kept (SET ... EX ... NX).
SETEX_nx(s, k, v, secs, t) ==
  IF k \in DOMAIN s THEN s
  ELSE [x \in DOMAIN s \cup {k} |->
          IF x = k THEN [val |-> v, exp |-> t + secs] ELSE s[x]]

\* SETEX key seconds value
SETEX(s, k, v, secs, t) ==
  [x \in DOMAIN s \cup {k} |->
     IF x = k THEN [val |-> v, exp |-> t + secs] ELSE s[x]]

Remove(s, k) == [x \in DOMAIN s \ {k} |-> s[x]]

\* Mutant of GETDEL: a plain GET, which leaves the entry in place.
GET_only(s, k) ==
  IF k \in DOMAIN s
  THEN [found |-> TRUE, val |-> s[k].val, store |-> s]
  ELSE [found |-> FALSE, val |-> <<>>, store |-> s]

\* GETDEL key: one indivisible command.
GETDEL(s, k) ==
  IF k \in DOMAIN s
  THEN [found |-> TRUE, val |-> s[k].val, store |-> Remove(s, k)]
  ELSE [found |-> FALSE, val |-> <<>>, store |-> s]

\* The engine drops every entry whose time to live has run out.
Expire(s, t) ==
  [x \in { y \in DOMAIN s : s[y].exp = NoExpiry \/ s[y].exp > t } |-> s[x]]

\* FromRedisValue for Option<String>: nil is None, a bulk string must be UTF-8
\* or the conversion fails with a RedisError (a type error).
FromRedisValue(r) ==
  IF ~r.found THEN [err |-> FALSE, some |-> FALSE, val |-> <<>>]
  ELSE IF ValidUtf8(r.val) THEN [err |-> FALSE, some |-> TRUE, val |-> r.val]
  ELSE [err |-> TRUE, some |-> FALSE, val |-> <<>>]

\* The store as the process finds it: one entry of another application, outside
\* the namespace, and no paste.  The other application's key is one a client
\* may ask this service for ("nope").
OtherKey == UnknownKey
OtherEntry == [val |-> <<1, 2>>, exp |-> NoExpiry]
InitStore == [x \in {OtherKey} |-> OtherEntry]

\* ------------------------------------------------------------------ state
VARIABLES
  store,    \* the engine's entries: store key -> [val, exp]
  now,      \* the engine's clock, in seconds
  stalled,  \* the engine has stopped answering
  held,     \* task -> the pooled connection it holds, 0 for none
  task,     \* task -> the request it serves and how far it got
  nret      \* how many handlers have returned (stamps the order of events)

vars == <<store, now, stalled, held, task, nret>>

IdleTask ==
  [pc |-> "idle", op |-> "none", arg |-> <<>>, res |-> NoResult,
   resp |-> NoResp, ncmd |-> 0, inv |-> 0, seq |-> 0, at |-> 0]

Init ==
  /\ store = InitStore
  /\ now = 0
  /\ stalled = FALSE
  /\ held = [t \in Tasks |-> 0]
  /\ task = [t \in Tasks |-> IdleTask]
  /\ nret = 0

\* The requests a client may send: POST /paste with a body, GET /paste/:key.
Requests ==
  { [op |-> "create", arg |-> paste] : paste \in Pastes }
    \cup { [op |-> "fetch", arg |-> key] : key \in PathKeys }

FreeConns == { c \in Conns : \A t \in Tasks : held[t] # c }
\* Mutant of FirstFree: the pool hands out its first connection, free or not.
FirstFree_any == CHOOSE c \in Conns : \A d \in Conns : c <= d

FirstFree == CHOOSE c \in FreeConns : \A d \in FreeConns : c <= d

\* Tasks are interchangeable, so requests take them in order.
CanStart(t) ==
  /\ task[t].pc = "idle"
  /\ \A u \in Tasks : u < t => task[u].pc # "idle"

Started(req, pc) ==
  [IdleTask EXCEPT !.pc = pc, !.op = req.op, !.arg = req.arg, !.inv = nret]

\* The handler returns res: its connection guard is dropped on the way out and
\* axum turns the Result into the response.
Returned(rec, res) ==
  [rec EXCEPT !.pc = "done", !.res = res, !.resp = Reply(res),
              !.seq = nret + 1, !.at = now]

\* The handler has issued one command on its connection (ncmd counts them).
Sent(rec) == [rec EXCEPT !.ncmd = @ + 1]

\* Mutant of Return: the handler returns and its connection stays checked out.
Return_leak(t, rec, res) ==
  /\ task' = [task EXCEPT ![t] = Returned(rec, res)]
  /\ held' = held
  /\ nret' = nret + 1

Return(t, rec, res) ==
  /\ task' = [task EXCEPT ![t] = Returned(rec, res)]
  /\ held' = [held EXCEPT ![t] = 0]
  /\ nret' = nret + 1

\* A request arrives and pool.get() hands its handler a free connection.
PoolGetNow(t) ==
  /\ CanStart(t)
  /\ FreeConns # {}
  /\ \E req \in Requests : task' = [task EXCEPT ![t] = Started(req, "cmd")]
  /\ held' = [held EXCEPT ![t] = FirstFree]
  /\ UNCHANGED <<store, now, stalled, nret>>

\* A request arrives and pool.get() suspends its handler: every connection is
\* out, or the engine does not answer the pool's check of the connection.
PoolGetWait(t) ==
  /\ CanStart(t)
  /\ FreeConns = {} \/ stalled
  /\ \E req \in Requests : task' = [task EXCEPT ![t] = Started(req, "get")]
  /\ UNCHANGED <<store, now, stalled, held, nret>>

\* A request arrives and pool.get() reports the engine's error from setting a
\* connection up (RunError::User).
PoolGetUser(t) ==
  /\ CanStart(t)
  /\ ~stalled
  /\ \E req \in Requests, e \in EngineErrors :
       Return(t, Started(req, "get"), From_RunError(RunError_User(e)))
  /\ UNCHANGED <<store, now, stalled>>

\* A suspended pool.get() is handed a connection that came free.
PoolGet(t) ==
  /\ task[t].pc = "get"
  /\ FreeConns # {}
  /\ held' = [held EXCEPT ![t] = FirstFree]
  /\ task' = [task EXCEPT ![t].pc = "cmd"]
  /\ UNCHANGED <<store, now, stalled, nret>>

\* Mutant of PoolGetTimedOut: the request that times out has had its effect on
\* the store all the same.
PoolGetTimedOut_after_effect(t) ==
  /\ task[t].pc = "get"
  /\ FreeConns = {} \/ stalled
  /\ store' = IF task[t].op = "fetch"
              THEN Remove(store, redis_key(task[t].arg))
              ELSE SETEX(store, redis_key(GenerateKey(CHOOSE r \in RngStreams : TRUE)),
                         task[t].arg, EXPIRY_SECS, now)
  /\ Return(t, task[t], From_RunError(RunError_TimedOut))
  /\ UNCHANGED <<now, stalled>>

\* A suspended pool.get() gives up after the pool's timeout (RunError::TimedOut).
PoolGetTimedOut(t) ==
  /\ task[t].pc = "get"
  /\ FreeConns = {} \/ stalled
  /\ Return(t, task[t], From_RunError(RunError_TimedOut))
  /\ UNCHANGED <<store, now, stalled>>

\* Mutant of create_paste_effect: the key is stored in place of the paste.
create_paste_stores_key(s, paste, rng, t) ==
  LET key == GenerateKey(rng) IN
  [store |-> SETEX(s, redis_key(key), key, EXPIRY_SECS, t), res |-> Ok(key)]

\* What create_paste does with its connection: generate the key, SETEX the
\* namespaced key, return the bare key.
create_paste_effect(s, paste, rng, t) ==
  LET key == GenerateKey(rng) IN
  [store |-> SETEX(s, redis_key(key), paste, EXPIRY_SECS, t), res |-> Ok(key)]

\* create_paste after pool.get().  The engine either performs the command or
\* answers with an error.
create_paste(t) ==
  /\ task[t].pc = "cmd" /\ task[t].op = "create"
  /\ ~stalled
  /\ \/ \E rng \in RngStreams :
          LET out == create_paste_effect(store, task[t].arg, rng, now) IN
          /\ store' = out.store
          /\ Return(t, Sent(task[t]), out.res)
     \/ \E e \in EngineErrors :
          /\ store' = store
          /\ Return(t, Sent(task[t]), RedisError(e))
  /\ UNCHANGED <<now, stalled>>

\* Mutant of get_paste_result: a missing value becomes the empty string
\* (unwrap_or_default in place of ok_or).
get_paste_result_default(key, r) ==
  LET value == FromRedisValue(r) IN
  IF value.err THEN RedisError(TypeError) ELSE Ok(value.val)

\* What get_paste makes of the engine's reply to GETDEL.
get_paste_result(key, r) ==
  LET value == FromRedisValue(r) IN
  IF value.err THEN RedisError(TypeError)
  ELSE IF value.some THEN Ok(value.val)
  ELSE NotFound(key)

\* Mutant of get_paste_effect: the error names the store key, not the key asked for.
get_paste_names_store_key(s, key) ==
  LET r == GETDEL(s, redis_key(key)) IN
  [store |-> r.store, res |-> get_paste_result(redis_key(key), r)]

\* Mutant of get_paste_effect: the reply is used and the entry put back.
get_paste_effect_keeps(s, key) ==
  LET r == GETDEL(s, redis_key(key)) IN
  [store |-> s, res |-> get_paste_result(key, r)]

\* What get_paste does with its connection: GETDEL the namespaced key.
get_paste_effect(s, key) ==
  LET r == GETDEL(s, redis_key(key)) IN
  [store |-> r.store, res |-> get_paste_result(key, r)]

\* Mutant of get_paste: a command the engine refused is issued a second time.
get_paste_retry(t) ==
  /\ task[t].pc = "cmd" /\ task[t].op = "fetch"
  /\ ~stalled
  /\ LET out == get_paste_effect(store, task[t].arg) IN
     \/ /\ store' = out.store
        /\ Return(t, Sent(task[t]), out.res)
     \/ /\ store' = out.store
        /\ Return(t, Sent(Sent(task[t])), out.res)
  /\ UNCHANGED <<now, stalled>>

\* get_paste after pool.get().
get_paste(t) ==
  /\ task[t].pc = "cmd" /\ task[t].op = "fetch"
  /\ ~stalled
  /\ \/ LET out == get_paste_effect(store, task[t].arg) IN
          /\ store' = out.store
          /\ Return(t, Sent(task[t]), out.res)
     \/ \E e \in EngineErrors :
          /\ store' = store
          /\ Return(t, Sent(task[t]), RedisError(e))
  /\ UNCHANGED <<now, stalled>>

\* Time passes; the engine expires what is due.
Tick ==
  /\ now < MaxTicks * TickSecs
  /\ now' = now + TickSecs
  /\ store' = Expire(store, now')
  /\ UNCHANGED <<stalled, held, task, nret>>

Next ==
  \/ \E t \in Tasks : PoolGetNow(t)
  \/ \E t \in Tasks : PoolGetWait(t)
  \/ \E t \in Tasks : PoolGetUser(t)
  \/ \E t \in Tasks : PoolGet(t)
  \/ \E t \in Tasks : PoolGetTimedOut(t)
  \/ \E t \in Tasks : create_paste(t)
  \/ \E t \in Tasks : get_paste(t)
  \/ Tick

Spec == Init /\ [][Next]_vars

\* ------------------------------------------------- a silent engine
\* The engine is silent from the start: no command is ever answered, so the
\* handlers that hold a connection never return it.
InitStalled ==
  /\ store = InitStore
  /\ now = 0
  /\ stalled = TRUE
  /\ held = [t \in Tasks |-> 0]
  /\ task = [t \in Tasks |-> IdleTask]
  /\ nret = 0

NextStalled ==
  \/ \E t \in Tasks : PoolGetNow(t)
  \/ \E t \in Tasks : PoolGetWait(t)
  \/ \E t \in Tasks : PoolGet(t)
  \/ \E t \in Tasks : PoolGetTimedOut(t)

\* The pool's timer is a timeout around the wait: it fires unless the wait ends
\* first.  Nothing else is assumed to make progress.
StalledSpec ==
  /\ InitStalled
  /\ [][NextStalled]_vars
  /\ \A t \in Tasks : WF_vars(PoolGetTimedOut(t))

\* ------------------------------------------------- a shared engine
\* The engine is shared with other applications: the process may find, under a
\* namespaced key, a value another client wrote that is not UTF-8.
ForeignKey == GenerateKey(<<61, 25, 26, 51, 52, 0, 13, 40, 7, 7>>)
ForeignEntry == [val |-> <<255, 254>>, exp |-> NoExpiry]

InitShared ==
  /\ store = [x \in {OtherKey, redis_key(ForeignKey)} |->
                IF x = OtherKey THEN OtherEntry ELSE ForeignEntry]
  /\ now = 0
  /\ stalled = FALSE
  /\ held = [t \in Tasks |-> 0]
  /\ task = [t \in Tasks |-> IdleTask]
  /\ nret = 0

SharedSpec == InitShared /\ [][Next]_vars

\* ------------------------------------------------- the error mapping alone
\* Every PastaError a handler can be written to return, with more than one
\* payload per kind.
ErrorDetails == EngineErrors \cup { "OOM", TypeError }
DecodeDetails ==
  { "invalid utf-8 sequence of 1 bytes from index 0",
    "incomplete utf-8 byte sequence from index 1" }
PastaErrors ==
  { NotFound(key) : key \in PathKeys \cup { <<>> } }
    \cup { RedisError(e) : e \in ErrorDetails }
    \cup { ConnectionTimeout }
    \cup { PasteDecodeError(e) : e \in DecodeDetails }

\* Each task is a handler about to return one of them.
InitResp ==
  /\ store = InitStore
  /\ now = 0
  /\ stalled = FALSE
  /\ held = [t \in Tasks |-> 0]
  /\ task \in [Tasks -> { [IdleTask EXCEPT !.pc = "ret", !.op = "fetch", !.res = e] :
                           e \in PastaErrors }]
  /\ nret = 0

\* axum turns the returned error into the response.
Respond(t) ==
  /\ task[t].pc = "ret"
  /\ task' = [task EXCEPT ![t].pc = "done", ![t].resp = Reply(task[t].res)]
  /\ UNCHANGED <<store, now, stalled, held, nret>>

NextResp == \E t \in Tasks : Respond(t)

RespSpec == InitResp /\ [][NextResp]_vars

\* ------------------------------------------------- a paste already stored
\* The requests arrive when an earlier create has left a paste in the store,
\* and are served before its time to live is over.
SeedKey == GenerateKey(<<0, 27, 54, 3, 30, 57, 6, 33, 60, 9>>)
SeedPaste == <<104, 105>>

InitSeeded ==
  /\ store = SETEX(InitStore, redis_key(SeedKey), SeedPaste, EXPIRY_SECS, 0)
  /\ now = 0
  /\ stalled = FALSE
  /\ held = [t \in Tasks |-> 0]
  /\ task = [t \in Tasks |-> IdleTask]
  /\ nret = 0

NextSeeded ==
  \/ \E t \in Tasks : PoolGetNow(t)
  \/ \E t \in Tasks : PoolGetWait(t)
  \/ \E t \in Tasks : PoolGet(t)
  \/ \E t \in Tasks : PoolGetTimedOut(t)
  \/ \E t \in Tasks : create_paste(t)
  \/ \E t \in Tasks : get_paste(t)

SeededSpec == InitSeeded /\ [][NextSeeded]_vars

\* ------------------------------------------------- key generation alone
\* A wider sample of the generator's draws: every symbol of the alphabet comes
\* up at every position of the key.
KeyStreams ==
  RngStreams \cup { [i \in 1..(KEY_LEN + 2) |-> (j + i) % 62] : j \in 0..61 }

\* One create_paste holds its connection and is about to generate its key.
InitKey ==
  /\ store = InitStore
  /\ now = 0
  /\ stalled = FALSE
  /\ held = [t \in Tasks |-> IF t = 1 THEN 1 ELSE 0]
  /\ \E paste \in Pastes :
       task = [t \in Tasks |->
                 IF t = 1 THEN [IdleTask EXCEPT !.pc = "cmd", !.op = "create",
                                                !.arg = paste]
                 ELSE IdleTask]
  /\ nret = 0

\* create_paste after pool.get(), over the wider sample of draws.
create_paste_sampled(t) ==
  /\ task[t].pc = "cmd" /\ task[t].op = "create"
  /\ ~stalled
  /\ \/ \E rng \in KeyStreams :
          LET out == create_paste_effect(store, task[t].arg, rng, now) IN
          /\ store' = out.store
          /\ Return(t, Sent(task[t]), out.res)
     \/ \E e \in EngineErrors :
          /\ store' = store
          /\ Return(t, Sent(task[t]), RedisError(e))
  /\ UNCHANGED <<now, stalled>>

NextKey == \E t \in Tasks : create_paste_sampled(t)

KeySpec == InitKey /\ [][NextKey]_vars

\* ================================================================ claims
\* The history of a run is read off the tasks: each finished task holds its
\* request, its result, and the stamps of when it started (inv), returned (seq)
\* and the engine time of its return (at).  A handler's store command and its
\* return are one step, so seq orders the commands as the engine ran them.
Done(t) == task[t].pc = "done"
IsCreate(t) == Done(t) /\ task[t].op = "create"
IsFetch(t) == Done(t) /\ task[t].op = "fetch"

\* create c succeeded and handed back key k (it is then that it wrote k).
Created(c, k) == IsCreate(c) /\ task[c].res = Ok(k)

\* fetch f of key k was answered by the engine: neither the pool nor the
\* engine failed it.
Fetched(f, k) ==
  /\ IsFetch(f) /\ task[f].arg = k
  /\ task[f].res.kind \in {"Ok", "NotFound"}

Before(a, b) == task[a].seq < task[b].seq

\* c is the last create of k before f: no create handed k back in between.
LastCreate(c, k, f) ==
  /\ Created(c, k) /\ Before(c, f)
  /\ ~\E d \in Tasks : Created(d, k) /\ Before(c, d) /\ Before(d, f)

\* f ran within the time to live of what c wrote.
InTime(c, f) == task[f].at < task[c].at + EXPIRY_SECS

\* An answered fetch of k came between c and f.
FetchedBetween(c, k, f) ==
  \E g \in Tasks : Fetched(g, k) /\ Before(c, g) /\ Before(g, f)

\* C1. Exactly-once: after k = create(C) succeeds, the first fetch(k) the
\* engine answers (within the time to live, k not generated again) succeeds
\* with C, and every later fetch(k) fails with NotFound(k).
C1_ExactlyOnce ==
  \A c, f \in Tasks : \A k \in PathKeys :
    (LastCreate(c, k, f) /\ Fetched(f, k)) =>
      IF FetchedBetween(c, k, f)
      THEN task[f].res = NotFound(k)
      ELSE InTime(c, f) => task[f].res = Ok(task[c].arg)

\* A create, then a fetch that returns its content, then a fetch started after
\* the first returned, which finds nothing.
C1_Witness ==
  \E c, f, g \in Tasks : \E k \in PathKeys :
    /\ LastCreate(c, k, f) /\ LastCreate(c, k, g)
    /\ Fetched(f, k) /\ Fetched(g, k)
    /\ task[f].inv >= task[c].seq
    /\ task[g].inv >= task[f].seq
    /\ task[f].res = Ok(task[c].arg)
    /\ task[g].res = NotFound(k)

\* The fetches of k the engine answered after create c and before k was
\* generated again or its time to live ran out.
FetchesOf(c, k) ==
  { f \in Tasks : LastCreate(c, k, f) /\ Fetched(f, k) /\ InTime(c, f) }

\* f and g were in flight at the same time.
Overlap(f, g) == task[f].inv < task[g].seq /\ task[g].inv < task[f].seq

\* C2. Concurrent fetch race: of the fetches of a just-created key, however
\* they interleave, exactly one succeeds, with the content, and all the others
\* fail with NotFound.
C2_ConcurrentFetchRace ==
  \A c \in Tasks : \A k \in PathKeys :
    (Created(c, k) /\ FetchesOf(c, k) # {}) =>
      /\ Cardinality({ f \in FetchesOf(c, k) : task[f].res.kind = "Ok" }) = 1
      /\ \A f \in FetchesOf(c, k) :
           task[f].res \in { Ok(task[c].arg), NotFound(k) }

\* Two fetches of the created key, both started after the create returned and
\* both in flight at once: one took the content, the other found nothing.
C2_Witness ==
  \E c, f, g \in Tasks : \E k \in PathKeys :
    /\ Created(c, k)
    /\ f \in FetchesOf(c, k) /\ g \in FetchesOf(c, k)
    /\ task[f].inv >= task[c].seq /\ task[g].inv >= task[c].seq
    /\ Overlap(f, g)
    /\ task[f].res = Ok(task[c].arg)
    /\ task[g].res = NotFound(k)

\* Nothing touched key k between c and f: no create handed it back and no
\* fetch of it was answered.
NextOnKey(c, k, f) == LastCreate(c, k, f) /\ ~FetchedBetween(c, k, f)

\* C3. Round-trip: a fetch of the key a create handed back returns exactly the
\* content given to that create, as value and as response body; and no fetch
\* ever returns bytes other than those of the last create of its key.
C3_RoundTrip ==
  /\ \A c, f \in Tasks :
       (IsCreate(c) /\ task[c].res.kind = "Ok"
          /\ NextOnKey(c, task[c].res.val, f)
          /\ Fetched(f, task[c].res.val) /\ InTime(c, f)) =>
         /\ task[f].res = Ok(task[c].arg)
         /\ task[f].resp = [status |-> 200, body |-> task[c].arg]
  /\ \A f \in Tasks :
       (IsFetch(f) /\ task[f].res.kind = "Ok") =>
         \E c \in Tasks :
           /\ LastCreate(c, task[f].arg, f)
           /\ task[f].res.val = task[c].arg

\* A paste of a two-byte character went through create and fetch unchanged.
C3_Witness ==
  \E c, f \in Tasks :
    /\ IsCreate(c) /\ task[c].res.kind = "Ok"
    /\ task[c].arg = <<195, 169>>
    /\ NextOnKey(c, task[c].res.val, f)
    /\ IsFetch(f) /\ task[f].arg = task[c].res.val
    /\ task[f].res = Ok(<<195, 169>>)

\* No create had handed k back when f ran.
NeverCreated(k, f) == ~\E c \in Tasks : Created(c, k) /\ Before(c, f)

\* C4. Unknown key: a fetch of a key no create has handed back fails with
\* NotFound carrying the bare requested key, and the 404 body names that key.
C4_UnknownKey ==
  \A f \in Tasks : \A k \in PathKeys :
    (Fetched(f, k) /\ NeverCreated(k, f)) =>
      /\ task[f].res = NotFound(k)
      /\ task[f].resp = [status |-> 404, body |-> NOT_FOUND_PREFIX \o k]

\* A key the generator cannot produce was fetched while a paste was stored,
\* and a key it can produce was fetched before any create handed it back.
C4_Witness ==
  /\ \E f \in Tasks :
       /\ Fetched(f, UnknownKey) /\ NeverCreated(UnknownKey, f)
       /\ \E c \in Tasks : IsCreate(c) /\ task[c].res.kind = "Ok" /\ Before(c, f)
  /\ \E f \in Tasks : \E k \in PathKeys \ {UnknownKey} :
       /\ Fetched(f, k) /\ NeverCreated(k, f)
       /\ \E c \in Tasks : Created(c, k)

\* C5. Expiry: once the time to live (1800 s) of a created key has run out,
\* the entry is gone from the store and every fetch of the key fails with
\* NotFound, as for a key never created; before that, an unfetched key is
\* still stored.
C5_Expiry ==
  /\ \A c, f \in Tasks : \A k \in PathKeys :
       (LastCreate(c, k, f) /\ Fetched(f, k) /\ task[f].at >= task[c].at + 1800) =>
         /\ task[f].res = NotFound(k)
         /\ task[f].resp = [status |-> 404, body |-> NOT_FOUND_PREFIX \o k]
  /\ \A c \in Tasks :
       (IsCreate(c) /\ task[c].res.kind = "Ok"
          /\ ~\E d \in Tasks : Created(d, task[c].res.val) /\ Before(c, d)) =>
         LET rk == redis_key(task[c].res.val) IN
         /\ now >= task[c].at + 1800 => rk \notin DOMAIN store
         /\ (now < task[c].at + 1800
               /\ ~\E g \in Tasks : Fetched(g, task[c].res.val) /\ Before(c, g)) =>
              (rk \in DOMAIN store /\ store[rk].val = task[c].arg)

\* A paste never fetched in time, fetched the moment its 1800 seconds were
\* over: not found.
C5_Witness ==
  \E c, f \in Tasks : \E k \in PathKeys :
    /\ LastCreate(c, k, f) /\ Fetched(f, k)
    /\ ~FetchedBetween(c, k, f)
    /\ task[f].at = task[c].at + 1800
    /\ task[f].res = NotFound(k)

\* The requests that have arrived.
Issued == { t \in Tasks : task[t].pc # "idle" }

TimedOut(t) ==
  /\ Done(t)
  /\ task[t].res = ConnectionTimeout
  /\ task[t].resp.status = 500

\* C6. Pool exhaustion: with N pooled connections and N+1 operations issued
\* against an engine that does not answer, at least one operation eventually
\* fails with ConnectionTimeout.
C6_PoolExhaustion ==
  (Cardinality(Issued) >= PoolSize + 1) ~> (\E t \in Tasks : TimedOut(t))

\* Every connection is held by a handler that will never be answered, and
\* the one request more has timed out.
C6_Witness ==
  /\ stalled
  /\ Cardinality({ t \in Tasks : task[t].pc = "cmd" /\ held[t] # 0 }) = PoolSize
  /\ FreeConns = {}
  /\ \E t \in Tasks : TimedOut(t)

\* C7. The error mapping is total and single-valued: NotFound(key) is 404
\* with a body naming the key, RedisError 500, ConnectionTimeout 500 and
\* PasteDecodeError 400, the last three with an empty body.
C7_ErrorMapping ==
  \A t \in Tasks :
    Done(t) =>
      LET e == task[t].res
          r == task[t].resp
      IN
      /\ e.kind \in {"NotFound", "RedisError", "ConnectionTimeout", "PasteDecodeError"}
      /\ e.kind = "NotFound" =>
           r = [status |-> 404, body |-> NOT_FOUND_PREFIX \o e.val]
      /\ e.kind = "RedisError" => r = [status |-> 500, body |-> <<>>]
      /\ e.kind = "ConnectionTimeout" => r = [status |-> 500, body |-> <<>>]
      /\ e.kind = "PasteDecodeError" => r = [status |-> 400, body |-> <<>>]

\* A decode error, an engine error and a missing key have all been answered.
C7_Witness ==
  /\ \E t \in Tasks :
       Done(t) /\ task[t].res.kind = "PasteDecodeError" /\ task[t].resp.status = 400
  /\ \E t \in Tasks :
       Done(t) /\ task[t].res.kind = "RedisError" /\ task[t].resp.status = 500
  /\ \E t \in Tasks :
       /\ Done(t) /\ task[t].res = NotFound(UnknownKey)
       /\ task[t].resp.body = NOT_FOUND_PREFIX \o UnknownKey

\* C8. No internal error leakage: two failures of the same kind (and, for
\* NotFound, of the same key) get the same status and body whatever the
\* internal detail, and only NotFound has a body.
C8_NoLeak ==
  /\ \A t, u \in Tasks :
       (Done(t) /\ Done(u)
          /\ task[t].res.kind = task[u].res.kind
          /\ task[t].res.val = task[u].res.val) =>
         task[t].resp = task[u].resp
  /\ \A t \in Tasks :
       (Done(t) /\ task[t].resp.body # <<>>) => task[t].res.kind = "NotFound"

\* Two engine errors with different texts, and two decode errors with
\* different texts, were answered alike.
C8_Witness ==
  /\ \E t, u \in Tasks :
       /\ Done(t) /\ Done(u)
       /\ task[t].res.kind = "RedisError" /\ task[u].res.kind = "RedisError"
       /\ task[t].res.detail # task[u].res.detail
       /\ task[t].resp = task[u].resp
  /\ \E t \in Tasks : Done(t) /\ task[t].res.kind = "PasteDecodeError"

\* Task t's get_paste returns in this step.
FetchReturns(t) ==
  /\ task[t].pc = "cmd" /\ task[t].op = "fetch"
  /\ task'[t].pc = "done"

\* C9. A paste leaves the store only through a fetch that returns its content
\* or through expiry: a fetch that ends in an error leaves an existing paste
\* in the store.
C9_FailedFetchKeepsPaste ==
  [][\A t \in Tasks :
       (FetchReturns(t) /\ task'[t].res.kind # "Ok") =>
         (redis_key(task[t].arg) \in DOMAIN store =>
            redis_key(task[t].arg) \in DOMAIN store')]_vars

\* C10. A fetch of a key whose stored bytes are not valid text fails with
\* PasteDecodeError, answered with status 400.
C10_DecodeErrorOnInvalidText ==
  [][\A t \in Tasks :
       (/\ FetchReturns(t)
        /\ redis_key(task[t].arg) \in DOMAIN store
        /\ ~ValidUtf8(store[redis_key(task[t].arg)].val)
        /\ redis_key(task[t].arg) \notin DOMAIN store') =>
         /\ task'[t].res.kind = "PasteDecodeError"
         /\ task'[t].resp.status = 400]_vars

\* The 62 symbols a-z, A-Z, 0-9, as bytes.
Alphanumerics == (97..122) \cup (65..90) \cup (48..57)

HasPrefix(s, p) == Len(s) >= Len(p) /\ SubSeq(s, 1, Len(p)) = p

\* C11. Key shape: every key a successful create returns is exactly 8
\* characters long, each of them one of the 62 alphanumeric symbols, and it is
\* the bare key: the entry was written under "pasta:" followed by it, and the
\* returned key itself carries no namespace prefix.
C11_KeyShape ==
  \A c \in Tasks :
    (IsCreate(c) /\ task[c].res.kind = "Ok") =>
      LET key == task[c].res.val IN
      /\ Len(key) = 8
      /\ \A i \in 1..Len(key) : key[i] \in Alphanumerics
      /\ Cardinality(Alphanumerics) = 62
      /\ ~HasPrefix(key, NAMESPACE)
      /\ key \notin DOMAIN store
      /\ (NAMESPACE \o key) \in DOMAIN store
      /\ task[c].resp.body = key

\* A create returned a key that begins with a digit and ends with a letter.
C11_Witness ==
  \E c \in Tasks :
    /\ IsCreate(c) /\ task[c].res.kind = "Ok"
    /\ task[c].res.val[1] \in 48..57
    /\ task[c].res.val[8] \in 97..122
    /\ (NAMESPACE \o task[c].res.val) \in DOMAIN store

\* Creates c and d collide on k: d handed back the key c had handed back, with
\* what c wrote neither fetched nor expired when d wrote.
Collision(c, d, k) ==
  /\ Created(c, k) /\ Created(d, k)
  /\ LastCreate(c, k, d)
  /\ ~FetchedBetween(c, k, d)
  /\ InTime(c, d)

\* Nothing has touched k since d wrote it.
Untouched(d, k) ==
  /\ ~\E e \in Tasks : Created(e, k) /\ Before(d, e)
  /\ ~\E g \in Tasks : Fetched(g, k) /\ Before(d, g)
  /\ now < task[d].at + 1800

\* C12. Collision overwrite: when a create hands back the key of an unfetched,
\* unexpired paste, the entry then holds the later content with a full time to
\* live counted from the later create; the next answered fetch of the key
\* within that time returns the later content; and no fetch after the collision
\* returns the earlier content unless another create wrote that same content.
C12_CollisionOverwrite ==
  \A c, d \in Tasks : \A k \in PathKeys :
    Collision(c, d, k) =>
      /\ Untouched(d, k) =>
            /\ (NAMESPACE \o k) \in DOMAIN store
            /\ store[NAMESPACE \o k] =
                 [val |-> task[d].arg, exp |-> task[d].at + 1800]
      /\ \A f \in Tasks :
           (/\ LastCreate(d, k, f) /\ Fetched(f, k)
            /\ ~FetchedBetween(d, k, f)
            /\ task[f].at < task[d].at + 1800) =>
             task[f].res = Ok(task[d].arg)
      /\ \A f \in Tasks :
           (Fetched(f, k) /\ Before(d, f) /\ task[f].res = Ok(task[c].arg)) =>
             \E e \in Tasks : /\ e # c /\ Created(e, k) /\ Before(e, f)
                              /\ task[e].arg = task[c].arg

\* Two creates with different contents collide, the later one some time after
\* the earlier; a fetch made when the earlier paste's time to live is over, but
\* not the later one's, returns the later content.
C12_Witness ==
  \E c, d, f \in Tasks : \E k \in PathKeys :
    /\ Collision(c, d, k)
    /\ task[c].arg # task[d].arg
    /\ task[d].at > task[c].at
    /\ Fetched(f, k) /\ Before(d, f)
    /\ task[f].at >= task[c].at + 1800
    /\ task[f].res = Ok(task[d].arg)

\* The commands task t has issued fit how far it got.
OneCommand(t) ==
  /\ task[t].ncmd <= 1
  /\ task[t].pc \in {"idle", "get", "cmd"} => task[t].ncmd = 0
  /\ (Done(t) /\ task[t].res = ConnectionTimeout) => task[t].ncmd = 0
  /\ (Done(t) /\ task[t].res.kind \in {"Ok", "NotFound"}) => task[t].ncmd = 1

\* C13. No retries: a create or fetch issues at most one command to the store.
\* The step a handler takes with its connection issues exactly one command and
\* ends the operation, with the engine's error if it answered with one; a
\* handler that ends without having had a connection has issued none and ends
\* with the pool's error; an operation that has ended takes no further step.
C13_NoRetries ==
  [][\A t \in Tasks :
       /\ OneCommand(t)'
       /\ (task[t].pc = "cmd" /\ task'[t] # task[t]) =>
            /\ task'[t].pc = "done" /\ task'[t].ncmd = 1
            /\ task'[t].res.kind \in {"Ok", "NotFound", "RedisError"}
       /\ (task[t].pc \in {"idle", "get"} /\ task'[t].pc = "done") =>
            /\ task'[t].ncmd = 0
            /\ task'[t].res.kind \in {"RedisError", "ConnectionTimeout"}
       /\ task[t].pc = "done" => task'[t] = task[t]]_vars

\* One operation ended on the pool's timeout having issued nothing, one on the
\* engine's error to its one command, one succeeded with its one command.
C13_Witness ==
  \E a, b, c \in Tasks :
    /\ Done(a) /\ task[a].res = ConnectionTimeout /\ task[a].ncmd = 0
    /\ Done(b) /\ task[b].res.kind = "RedisError" /\ task[b].ncmd = 1
    /\ Done(c) /\ task[c].res.kind = "Ok" /\ task[c].ncmd = 1

\* The connections that are checked out.
CheckedOut == { c \in Conns : \E t \in Tasks : held[t] = c }

\* C14. Connection exclusivity: a task holds one connection of the pool or
\* none, and holds one exactly while its handler is between pool.get() and its
\* return; no connection is held by two tasks; the connections checked out are
\* never more than the pool's size.
C14_ConnectionExclusivity ==
  /\ \A t \in Tasks :
       /\ held[t] \in Conns \cup {0}
       /\ held[t] # 0 <=> task[t].pc = "cmd"
  /\ \A t, u \in Tasks : (t # u /\ held[t] # 0) => held[t] # held[u]
  /\ Cardinality({ t \in Tasks : held[t] # 0 }) = Cardinality(CheckedOut)
  /\ Cardinality(CheckedOut) <= PoolSize

\* Every connection is out, each with its own handler, and one more handler
\* waits for one.
C14_Witness ==
  /\ CheckedOut = Conns
  /\ \A c \in Conns : \E t \in Tasks : held[t] = c /\ task[t].pc = "cmd"
  /\ \E t \in Tasks : task[t].pc = "get" /\ held[t] = 0

\* No operation is in flight.
Quiescent == \A t \in Tasks : task[t].pc \in {"idle", "done"}

\* C15. Scoped acquisition: an operation that has completed, with whatever
\* result, holds no connection; and when no operation is in flight every
\* connection of the pool is free.
C15_ScopedAcquisition ==
  /\ \A t \in Tasks : Done(t) => held[t] = 0
  /\ Quiescent => (CheckedOut = {} /\ FreeConns = Conns)

\* Three operations that each had a connection have completed, one with
\* success, one with NotFound and one with the store error of a reply that is
\* not text; the pool is whole again.
C15_Witness ==
  /\ Quiescent /\ FreeConns = Conns
  /\ \A t \in Tasks : Done(t) /\ task[t].ncmd = 1
  /\ \E t \in Tasks : task[t].res.kind = "Ok"
  /\ \E t \in Tasks : task[t].res.kind = "NotFound"
  /\ \E t \in Tasks : task[t].res = RedisError(TypeError)

\* Task t returns in this step.
Returns(t) == task[t].pc # "done" /\ task'[t].pc = "done"

\* C16. Failure classification: an operation ends with ConnectionTimeout
\* exactly when it ends while waiting for a connection the pool did not supply;
\* when the engine's error ends it, on the command or while the pool sets the
\* connection up, it ends with RedisError carrying that error.  So the pool's
\* timeout is never reported as RedisError nor the engine's error as
\* ConnectionTimeout.
C16_FailureClassification ==
  [][\A t \in Tasks :
       Returns(t) =>
         /\ task'[t].res = ConnectionTimeout <=> task[t].pc = "get"
         /\ task[t].pc = "get" => task'[t].ncmd = 0 /\ held[t] = 0
         /\ task[t].pc = "idle" =>
              \E e \in EngineErrors : task'[t].res = RedisError(e)
         /\ (task[t].pc = "cmd" /\ task'[t].res.kind \notin {"Ok", "NotFound"}) =>
              \E e \in EngineErrors \cup {TypeError} : task'[t].res = RedisError(e)
         /\ task'[t].res.kind \in {"RedisError", "ConnectionTimeout"} =>
              task'[t].resp = [status |-> 500, body |-> <<>>]]_vars

\* One operation timed out waiting for a connection while two others held the
\* pool's connections, and one of those ended on the engine's error to its
\* command; both were answered 500.
C16_Witness ==
  \E a, c \in Tasks :
    /\ Done(a) /\ task[a].res = ConnectionTimeout /\ task[a].ncmd = 0
    /\ Done(c) /\ task[c].ncmd = 1 /\ Before(a, c)
    /\ \E e \in EngineErrors : task[c].res = RedisError(e)
    /\ task[a].resp.status = 500 /\ task[c].resp.status = 500

\* Store t is store s except, at most, at key x.
SameExceptAt(s, t, x) ==
  /\ DOMAIN s \ {x} = DOMAIN t \ {x}
  /\ \A y \in DOMAIN s \ {x} : t[y] = s[y]

\* C17. Namespace isolation and frame: a create that succeeds writes the one
\* entry "pasta:" + the key it returns, holding its content, and a create that
\* fails writes none; a fetch of k changes the store at most by removing the
\* entry "pasta:" + k, and what it returns is what that entry held; every other
\* entry is as it was.  An operation that ends without a connection leaves the
\* whole store as it was, and the entry outside the namespace is never touched.
C17_NamespaceFrame ==
  [][/\ OtherKey \in DOMAIN store' /\ store'[OtherKey] = OtherEntry
     /\ \A t \in Tasks :
          Returns(t) =>
            IF task[t].pc # "cmd" THEN store' = store
            ELSE IF task[t].op = "create"
            THEN IF task'[t].res.kind = "Ok"
                 THEN LET x == NAMESPACE \o task'[t].res.val IN
                      /\ SameExceptAt(store, store', x)
                      /\ x \in DOMAIN store'
                      /\ store'[x].val = task[t].arg
                 ELSE store' = store
            ELSE LET x == NAMESPACE \o task[t].arg IN
                 /\ SameExceptAt(store, store', x)
                 /\ x \in DOMAIN store' => store' = store
                 /\ task'[t].res.kind = "Ok" =>
                      /\ x \in DOMAIN store /\ x \notin DOMAIN store'
                      /\ store[x].val = task'[t].res.val]_vars

\* Two pastes and the other application's entry "nope" are in the store: a
\* fetch of "nope" found nothing and left all three alone.
C17_Witness ==
  \E c, d, f \in Tasks :
    /\ IsCreate(c) /\ IsCreate(d) /\ Before(c, d) /\ Before(d, f)
    /\ task[c].res.kind = "Ok" /\ task[d].res.kind = "Ok"
    /\ task[c].res.val # task[d].res.val
    /\ IsFetch(f) /\ task[f].arg = OtherKey /\ task[f].res = NotFound(OtherKey)
    /\ DOMAIN store = { OtherKey, NAMESPACE \o task[c].res.val,
                        NAMESPACE \o task[d].res.val }
    /\ store[OtherKey] = OtherEntry
    /\ store[NAMESPACE \o task[c].res.val].val = task[c].arg

\* The fetches of k that succeeded, and the creates that wrote k.
Delivered(k) == { f \in Tasks : IsFetch(f) /\ task[f].arg = k
                                /\ task[f].res.kind = "Ok" }
Wrote(k) == { c \in Tasks : Created(c, k) }

\* C18. At-most-once delivery: for every key k, at every successful fetch of k
\* the successful fetches of k so far (that one included) are no more than the
\* creates that wrote k before it, so overall no more than the writes to k;
\* and what the fetch returns is the content of the last write to k before it.
C18_AtMostOnce ==
  \A k \in PathKeys :
    /\ Cardinality(Delivered(k)) <= Cardinality(Wrote(k))
    /\ \A f \in Delivered(k) :
         /\ Cardinality({ g \in Delivered(k) : task[g].seq <= task[f].seq })
              <= Cardinality({ c \in Wrote(k) : Before(c, f) })
         /\ \E c \in Wrote(k) :
              LastCreate(c, k, f) /\ task[f].res.val = task[c].arg

\* Two creates wrote k with different contents at the same engine time and the
\* one fetch of k that followed delivered the later content: one delivery for
\* two writes.
C18_Witness ==
  \E k \in PathKeys : \E c, d \in Wrote(k) : \E f \in Delivered(k) :
    /\ Before(c, d) /\ Before(d, f)
    /\ task[c].arg # task[d].arg
    /\ task[c].at = task[f].at
    /\ task[f].res = Ok(task[d].arg)
    /\ Cardinality(Delivered(k)) = 1 /\ Cardinality(Wrote(k)) = 2

\* f is a fetch of k that ended with ConnectionTimeout.
TimedOutFetch(f, k) ==
  IsFetch(f) /\ task[f].arg = k /\ task[f].res = ConnectionTimeout

\* The paste stored at the start is delivered to the first answered fetch of
\* its key, if no create wrote the key before, whatever fetches of the key
\* timed out earlier.
StillFetchable ==
  \A f, g \in Tasks :
    (/\ TimedOutFetch(f, SeedKey) /\ Before(f, g)
     /\ Fetched(g, SeedKey)
     /\ ~\E h \in Tasks : Fetched(h, SeedKey) /\ Before(h, g)
     /\ ~\E c \in Tasks : Created(c, SeedKey) /\ Before(c, g)) =>
      task[g].res = Ok(SeedPaste)

\* C19. An operation that fails with ConnectionTimeout has not touched the
\* store: the step on which it fails leaves every entry as it was, the handler
\* has issued no command, and its response carries no key (500, empty body);
\* a paste that was in the store before a fetch of its key timed out is
\* delivered to the next answered fetch of that key.
C19_TimeoutTouchesNothing ==
  [][/\ \A t \in Tasks :
          (Returns(t) /\ task'[t].res = ConnectionTimeout) =>
            /\ store' = store
            /\ task'[t].ncmd = 0
            /\ task'[t].resp = [status |-> 500, body |-> <<>>]
     /\ StillFetchable']_vars

\* A fetch of the stored paste's key timed out while the paste was in the
\* store; a fetch of the key answered after that delivered the paste.
C19_Witness ==
  \E f, g \in Tasks :
    /\ TimedOutFetch(f, SeedKey) /\ Before(f, g)
    /\ Fetched(g, SeedKey) /\ task[g].res = Ok(SeedPaste)
    /\ ~\E c \in Tasks : Created(c, SeedKey)

====
